---- MODULE Spec2Model ----
(***************************************************************************)
(* Catalog synchronisation of the More Money More Love scraper:            *)
(* main.run() pulls listings from scraper.stream_all_products(), builds    *)
(* one row per listing with an image, and then writes to the products      *)
(* table through database.upsert_products / remove_stale_products.         *)
(*                                                                         *)
(* The program is single threaded.  Every step of the model is one         *)
(* blocking call of the program (a page request, the processing of one     *)
(* listing, one storage request) together with the straight-line code      *)
(* around it.  The nondeterminism is the environment: what the feed        *)
(* serves, which requests fail, what the table held before the run.        *)
(***************************************************************************)
EXTENDS Integers, Sequences, FiniteSets, TLC

VARIABLES
    dry_run,      \* main.run argument
    limit,        \* main.run argument: <<>> is None, <<n>> is the cap n
    SUPABASE_KEY, \* config.SUPABASE_KEY ("" when unset)
    pc,           \* position of the program
    loaded,       \* EmbeddingGenerator() has been constructed
    page,         \* stream_all_products: page
    attempt,      \* fetch_collection_page: failed attempts of the current call
    slept,        \* fetch_collection_page: the sleeps of the current call
    products,     \* stream_all_products: listings of the page not yet yielded
    raw,          \* main.run: the listing the for loop holds, <<>> when none
    total,        \* main.run: total
    rows,         \* main.run: rows
    requested,    \* history: page numbers given to fetch_collection_page
    served,       \* history: what each call of fetch_collection_page returned
    yielded,      \* history: (page, listing) pairs the generator yielded
    embedCalls,   \* history: image urls given to gen.image_embedding
    normalized,   \* upsert_products: normalized
    i,            \* upsert_products / remove_stale_products: loop offset
    j,            \* upsert_products: index of the row retried inside the chunk
    upserted,     \* result of upsert_products: <<>> not returned, <<b>> returned b
    store,        \* identities stored in the products table for this source
    sent,         \* history: the storage requests, in order
    current,      \* remove_stale_products: current_scraped_ids
    ids,          \* get_existing_product_ids_for_source: ids
    offset,       \* get_existing_product_ids_for_source: offset
    existing,     \* remove_stale_products: existing, <<>> before it is known
    id_list,      \* remove_stale_products: id_list
    deleted,      \* remove_stale_products: deleted
    removed,      \* result of remove_stale_products: <<>> or <<n>>
    reconciled,   \* history: number of calls of remove_stale_products
    atCall,       \* history: the table when remove_stale_products was called
    vec,          \* _ensure_dim: the vector it is given
    fitted,       \* result of _ensure_dim: <<>> is None, <<v>> is the list v
    variants,     \* _sale_value: product["variants"]
    sale,         \* product_to_record: the sale of the record
    runs,         \* the runs of main.run completed before this one
    prev          \* what the run before was served and left stored, <<>> if none

vars == <<dry_run, limit, SUPABASE_KEY, pc, loaded, page, attempt, slept,
          products, raw, total, rows, requested, yielded, embedCalls,
          normalized, i, j, upserted, store, sent, current, ids, offset,
          existing, id_list, deleted, removed, reconciled, served, atCall,
          vec, fitted, variants, sale, runs, prev>>

runArgs   == <<dry_run, limit, SUPABASE_KEY>>
pagerVars == <<page, attempt, slept, products, requested, served>>
loopVars  == <<raw, total, rows, yielded, embedCalls>>
upsertVars == <<normalized, i, j, upserted>>
staleVars == <<current, ids, offset, existing, id_list, deleted, removed, reconciled,
               atCall>>
dbVars    == <<store, sent>>
fnVars    == <<vec, fitted, variants, sale>>
prevVars  == <<runs, prev>>

-----------------------------------------------------------------------------
(* Bounds of the model *)

\* the feed serves at most this many listings in one run
MaxListings == 2
\* the rows handed to upsert_products when it is exercised on its own
MaxRows == 3
\* the length of the vectors handed to _ensure_dim
MaxVecLen == 3
\* the variants of the product handed to _sale_value
MaxVariants == 2

(* Program constants *)

\* database.CHUNK_SIZE is 100; the model keeps the chunking and scales the size
CHUNK_SIZE == 2
\* limit=1000 of the paginated read; scaled like CHUNK_SIZE
PAGE_LIMIT == 2
MAX_RETRIES == 3
\* config.REQUEST_DELAY is 1.0 (seconds)
REQUEST_DELAY == 1
\* config.EMBEDDING_DIM is 768; the model keeps the three cases (shorter, equal,
\* longer) and scales the length
EMBEDDING_DIM == 2

SOURCE == "scraper"
BRAND == "Moremoney Morelove"
BASE_URL == "https://moremoneymorelove.de"
None == "None"

-----------------------------------------------------------------------------
(* Generic helpers *)

SeqsUpTo(S, n) == UNION {[1..k -> S] : k \in 0..n}

Range(s) == {s[k] : k \in 1..Len(s)}

Min(a, b) == IF a < b THEN a ELSE b

RECURSIVE SelectSeq2(_, _)
\* the elements of s that are not "", in order (a list comprehension with a filter)
SelectSeq2(s, k) ==
    IF k > Len(s) THEN <<>>
    ELSE (IF s[k] # "" THEN <<s[k]>> ELSE <<>>) \o SelectSeq2(s, k + 1)

RECURSIVE Join(_, _)
\* sep.join(s) for a sequence of strings
Join(sep, s) ==
    IF s = <<>> THEN ""
    ELSE IF Len(s) = 1 THEN s[1]
    ELSE s[1] \o sep \o Join(sep, Tail(s))

\* all the orders in which a set can be listed
Perms(S) ==
    {f \in [1..Cardinality(S) -> S] : \A a, b \in 1..Cardinality(S) : a # b => f[a] # f[b]}

-----------------------------------------------------------------------------
(* The feed: what a listing is, as far as run() looks at it *)

Handles == {"a", "b"}
\* the src of each image of the listing, in declared order ("" is a missing src)
ImageLists == {<<>>, <<"", "i1", "i2">>}
Listings == [handle : Handles, images : ImageLists]

\* scraper._product_url
_product_url(handle) == BASE_URL \o "/en/products/" \o handle

\* Faulty variant of _image_urls: the first declared image is taken as the
\* primary image even when it has no src
_image_urls_FirstDeclared(product) ==
    IF product.images = <<>> THEN <<"", "">>
    ELSE <<Head(product.images),
           IF Tail(product.images) # <<>> THEN Join(" , ", Tail(product.images)) ELSE "">>

\* scraper._image_urls: (first_image_url, additional_images)
_image_urls(product) ==
    LET urls == SelectSeq2(product.images, 1)
    IN  IF urls = <<>> THEN <<"", "">>
        ELSE <<Head(urls), IF Tail(urls) # <<>> THEN Join(" , ", Tail(urls)) ELSE "">>

\* scraper.product_to_record, the fields run() and prepare_row read
product_to_record(product) ==
    [product_url       |-> _product_url(product.handle),
     image_url         |-> _image_urls(product)[1],
     additional_images |-> _image_urls(product)[2]]

\* Faulty variant of generate_id: only the source tag is digested
generate_id_SourceOnly(source, product_url) == "sha256(" \o source \o ")"

\* database.generate_id: the digest of "source:product_url".  SHA-256 is taken
\* as collision free, so the digest is written as the text it is taken of.
generate_id(source, product_url) == "sha256(" \o source \o ":" \o product_url \o ")"

\* database.prepare_row: the embedding keys exist only when an embedding was made
prepare_row(record, image_embedding, info_embedding) ==
    LET product_url == IF record.product_url # "" THEN record.product_url ELSE ""
        row == [id                |-> generate_id(SOURCE, product_url),
                source            |-> SOURCE,
                product_url       |-> product_url,
                image_url         |-> record.image_url,
                brand             |-> BRAND,
                additional_images |-> IF record.additional_images # ""
                                      THEN record.additional_images ELSE None]
        img == IF image_embedding # None
               THEN [k \in {"image_embedding"} |-> image_embedding] ELSE <<>>
        inf == IF info_embedding # None
               THEN [k \in {"info_embedding"} |-> info_embedding] ELSE <<>>
    IN  [k \in DOMAIN row \cup DOMAIN img \cup DOMAIN inf |->
            IF k \in DOMAIN row THEN row[k]
            ELSE IF k \in DOMAIN img THEN img[k] ELSE inf[k]]

\* what an embedding call can return: no embedding, or a vector
ImageEmbeddings == {None, "image_vec"}
InfoEmbeddings == {None, "info_vec"}

-----------------------------------------------------------------------------
(* main.run up to the end of the for loop, and scraper.stream_all_products *)

\* Faulty variant of Start: the storage key is not looked at
Start_NoCheck ==
    /\ pc = "start"
    /\ pc' = "next"
    /\ loaded' = TRUE
    /\ UNCHANGED <<runArgs, prevVars, fnVars, pagerVars, loopVars, upsertVars, staleVars, dbVars>>

\* main.py 24-29: the credential check and the construction of the generator
Start ==
    /\ pc = "start"
    /\ IF SUPABASE_KEY = "" /\ ~dry_run
       THEN pc' = "exit1" /\ UNCHANGED loaded
       ELSE pc' = "next" /\ loaded' = TRUE
    /\ UNCHANGED <<runArgs, prevVars, fnVars, pagerVars, loopVars, upsertVars, staleVars, dbVars>>

\* the for loop resumes the generator, which yields the next listing of the
\* page it holds (scraper.py 151-152)
Yield ==
    /\ pc = "next"
    /\ products # <<>>
    /\ raw' = <<Head(products)>>
    /\ products' = Tail(products)
    /\ yielded' = Append(yielded, [page |-> page, listing |-> Head(products)])
    /\ pc' = "body"
    /\ UNCHANGED <<runArgs, prevVars, fnVars, loaded, page, attempt, slept, requested, served, total,
                   rows, embedCalls, upsertVars, staleVars, dbVars>>

\* Faulty variant of CallFetch: the page number is never advanced
CallFetch_NoIncrement ==
    /\ pc = "next"
    /\ products = <<>>
    /\ page' = page
    /\ requested' = Append(requested, page')
    /\ attempt' = 0
    /\ slept' = <<>>
    /\ pc' = "fetch"
    /\ UNCHANGED <<runArgs, prevVars, fnVars, loaded, products, served, loopVars, upsertVars, staleVars,
                   dbVars>>

\* the generator has no listing left: page += 1 and sleep (after the first
\* page), then call fetch_collection_page(page) (scraper.py 144-146, 153-154)
CallFetch ==
    /\ pc = "next"
    /\ products = <<>>
    /\ page' = IF requested = <<>> THEN page ELSE page + 1
    /\ requested' = Append(requested, page')
    /\ attempt' = 0
    /\ slept' = <<>>
    /\ pc' = "fetch"
    /\ UNCHANGED <<runArgs, prevVars, fnVars, loaded, products, served, loopVars, upsertVars, staleVars,
                   dbVars>>

\* what the feed can answer to the request of this page: in a first run any
\* listings (within the bound of the model), in a run over the same source
\* content the page the run before was served
Served ==
    IF runs = 0
    THEN SeqsUpTo(Listings, MaxListings - Len(yielded))
    ELSE {IF page <= Len(prev[1].served) THEN prev[1].served[page] ELSE <<>>}

\* fetch_collection_page: an attempt succeeds and the function has returned
\* the products of the page, its loop counter gone with it (scraper.py 129-134)
FetchOk ==
    /\ pc = "fetch"
    /\ attempt < MAX_RETRIES
    /\ \E p \in Served : products' = p
    /\ attempt' = 0
    /\ slept' = <<>>
    /\ pc' = "fetch_ret"
    /\ UNCHANGED <<runArgs, prevVars, fnVars, loaded, page, requested, served, loopVars, upsertVars,
                   staleVars, dbVars>>

\* Faulty variant of FetchFail: the exception of the last attempt is not
\* caught and ends the run
FetchFail_Raises ==
    /\ pc = "fetch"
    /\ attempt < MAX_RETRIES
    /\ attempt' = attempt + 1
    /\ slept' = IF attempt < MAX_RETRIES - 1
                THEN Append(slept, REQUEST_DELAY * (attempt + 1)) ELSE slept
    /\ pc' = IF attempt + 1 = MAX_RETRIES THEN "exit1" ELSE "fetch"
    /\ UNCHANGED <<runArgs, prevVars, fnVars, loaded, page, products, requested, served, loopVars,
                   upsertVars, staleVars, dbVars>>

\* Faulty variant of FetchFail: the wait does not grow with the attempt
FetchFail_ConstantDelay ==
    /\ pc = "fetch"
    /\ attempt < MAX_RETRIES
    /\ attempt' = attempt + 1
    /\ slept' = IF attempt < MAX_RETRIES - 1
                THEN Append(slept, REQUEST_DELAY) ELSE slept
    /\ pc' = IF attempt + 1 = MAX_RETRIES THEN "fetch_ret" ELSE "fetch"
    /\ UNCHANGED <<runArgs, prevVars, fnVars, loaded, page, products, requested, served, loopVars,
                   upsertVars, staleVars, dbVars>>

\* fetch_collection_page: an attempt raises; sleep before the next attempt, or
\* leave the loop after the last one, to return [] (scraper.py 135-139)
FetchFail ==
    /\ pc = "fetch"
    /\ attempt < MAX_RETRIES
    /\ attempt' = attempt + 1
    /\ slept' = IF attempt < MAX_RETRIES - 1
                THEN Append(slept, REQUEST_DELAY * (attempt + 1)) ELSE slept
    /\ pc' = IF attempt + 1 = MAX_RETRIES THEN "fetch_ret" ELSE "fetch"
    /\ UNCHANGED <<runArgs, prevVars, fnVars, loaded, page, products, requested, served, loopVars,
                   upsertVars, staleVars, dbVars>>

\* stream_all_products takes what fetch_collection_page returned: no products
\* ends the generator and with it the for loop of run(), else the products are
\* yielded one by one (scraper.py 146-151)
FetchReturn ==
    /\ pc = "fetch_ret"
    /\ pc' = IF products = <<>> THEN "after_loop" ELSE "next"
    /\ attempt' = 0
    /\ slept' = <<>>
    /\ served' = Append(served, products)
    /\ UNCHANGED <<runArgs, prevVars, fnVars, loaded, page, products, requested, loopVars,
                   upsertVars, staleVars, dbVars>>

\* main.py 35-37: the cap is reached, the listing just yielded is dropped
LimitBreak ==
    /\ pc = "body"
    /\ limit # <<>> /\ total >= limit[1]
    /\ raw' = <<>>
    /\ pc' = "after_loop"
    /\ UNCHANGED <<runArgs, prevVars, fnVars, loaded, pagerVars, total, rows, yielded, embedCalls,
                   upsertVars, staleVars, dbVars>>

\* main.py 38-45: a listing without a primary image is skipped
SkipNoImage ==
    /\ pc = "body"
    /\ ~(limit # <<>> /\ total >= limit[1])
    /\ product_to_record(raw[1]).image_url = ""
    /\ total' = total + 1
    /\ raw' = <<>>
    /\ pc' = "next"
    /\ UNCHANGED <<runArgs, prevVars, fnVars, loaded, pagerVars, rows, yielded, embedCalls,
                   upsertVars, staleVars, dbVars>>

\* Faulty variant of ProcessListing: the cap is not looked at
ProcessListing_IgnoresCap ==
    /\ pc = "body"
    /\ LET record == product_to_record(raw[1])
       IN  /\ record.image_url # ""
           /\ \E image_emb \in ImageEmbeddings, info_emb \in InfoEmbeddings :
                 rows' = Append(rows, prepare_row(record, image_emb, info_emb))
           /\ embedCalls' = Append(embedCalls, record.image_url)
    /\ total' = total + 1
    /\ raw' = <<>>
    /\ pc' = "next"
    /\ UNCHANGED <<runArgs, prevVars, fnVars, loaded, pagerVars, yielded, upsertVars, staleVars, dbVars>>

\* Faulty variant of ProcessListing: the row is put in front of the buffer
ProcessListing_Prepends ==
    /\ pc = "body"
    /\ ~(limit # <<>> /\ total >= limit[1])
    /\ LET record == product_to_record(raw[1])
       IN  /\ record.image_url # ""
           /\ \E image_emb \in ImageEmbeddings, info_emb \in InfoEmbeddings :
                 rows' = <<prepare_row(record, image_emb, info_emb)>> \o rows
           /\ embedCalls' = Append(embedCalls, record.image_url)
    /\ total' = total + 1
    /\ raw' = <<>>
    /\ pc' = "next"
    /\ UNCHANGED <<runArgs, prevVars, fnVars, loaded, pagerVars, yielded, upsertVars, staleVars, dbVars>>

\* main.py 38-57: both embeddings are asked for and the row is buffered
ProcessListing ==
    /\ pc = "body"
    /\ ~(limit # <<>> /\ total >= limit[1])
    /\ LET record == product_to_record(raw[1])
       IN  /\ record.image_url # ""
           /\ \E image_emb \in ImageEmbeddings, info_emb \in InfoEmbeddings :
                 rows' = Append(rows, prepare_row(record, image_emb, info_emb))
           /\ embedCalls' = Append(embedCalls, record.image_url)
    /\ total' = total + 1
    /\ raw' = <<>>
    /\ pc' = "next"
    /\ UNCHANGED <<runArgs, prevVars, fnVars, loaded, pagerVars, yielded, upsertVars, staleVars, dbVars>>

-----------------------------------------------------------------------------
(* The products table, as the three storage requests see it *)

\* the ids of a sequence of rows, in order
RowIds(rs) == [k \in 1..Len(rs) |-> rs[k].id]

\* a storage request as it is recorded in the history: op is "upsert_chunk"
\* (the POST of a chunk), "upsert_row" (the POST of one row of a rejected
\* chunk), "read" (the GET at an offset) or "delete" (the DELETE of a batch)
Request(op, body, ok) == [op |-> op, body |-> body, ok |-> ok]

\* Faulty variant of _normalize_rows: the rows are passed on as they are
_normalize_rows_NoFill(rs) == rs

\* database._normalize_rows: every row gets every key, None where it had none
_normalize_rows(rs) ==
    LET all_keys == UNION {DOMAIN rs[k] : k \in 1..Len(rs)}
    IN  [n \in 1..Len(rs) |->
            [k \in all_keys |-> IF k \in DOMAIN rs[n] THEN rs[n][k] ELSE None]]

\* database.py 108: chunk = normalized[i : i + CHUNK_SIZE]
Slice(s, from, size) == SubSeq(s, from + 1, Min(from + size, Len(s)))

-----------------------------------------------------------------------------
(* database.upsert_products *)

\* database.py 101-106: nothing to do for no rows; else normalize, open the session
upsert_products_begin ==
    /\ pc = "call_upsert"
    /\ IF rows = <<>>
       THEN /\ upserted' = <<TRUE>>
            /\ pc' = "upsert_ret"
            /\ UNCHANGED <<normalized, i, j>>
       ELSE /\ normalized' = _normalize_rows(rows)
            /\ i' = 0
            /\ j' = 0
            /\ upserted' = <<>>
            /\ pc' = "upsert_chunk"
    /\ UNCHANGED <<runArgs, prevVars, fnVars, loaded, pagerVars, loopVars, staleVars, dbVars>>

\* Faulty variant of NextChunk: the offset steps over one row too many
NextChunk_SkipsRow(from) ==
    /\ i' = from + CHUNK_SIZE + 1
    /\ j' = 0
    /\ IF from + CHUNK_SIZE + 1 >= Len(normalized)
       THEN upserted' = <<TRUE>> /\ pc' = "upsert_ret"
       ELSE upserted' = upserted /\ pc' = "upsert_chunk"

\* the for loop of database.py 107 moves to the next chunk, or the function
\* returns True after the last one (database.py 129)
NextChunk(from) ==
    /\ i' = from + CHUNK_SIZE
    /\ j' = 0
    /\ IF from + CHUNK_SIZE >= Len(normalized)
       THEN upserted' = <<TRUE>> /\ pc' = "upsert_ret"
       ELSE upserted' = upserted /\ pc' = "upsert_chunk"

\* database.py 108-116: the chunk is posted and accepted: its rows are stored
UpsertChunkOk ==
    /\ pc = "upsert_chunk"
    /\ LET chunk == Slice(normalized, i, CHUNK_SIZE)
       IN  /\ sent' = Append(sent, Request("upsert_chunk", chunk, TRUE))
           /\ store' = store \cup Range(RowIds(chunk))
    /\ NextChunk(i)
    /\ UNCHANGED <<runArgs, prevVars, fnVars, loaded, pagerVars, loopVars, normalized, staleVars>>

\* database.py 108-118: the chunk is posted and rejected as a whole: nothing
\* of it is stored, and the per-row retry starts
UpsertChunkRejected ==
    /\ pc = "upsert_chunk"
    /\ sent' = Append(sent, Request("upsert_chunk", Slice(normalized, i, CHUNK_SIZE), FALSE))
    /\ j' = 0
    /\ pc' = "upsert_row"
    /\ UNCHANGED <<runArgs, prevVars, fnVars, loaded, pagerVars, loopVars, normalized, i, upserted,
                   store, staleVars>>

\* database.py 119-126: one row of the rejected chunk is posted alone and accepted
UpsertRowOk ==
    /\ pc = "upsert_row"
    /\ LET chunk == Slice(normalized, i, CHUNK_SIZE)
           row == chunk[j + 1]
       IN  /\ sent' = Append(sent, Request("upsert_row", <<row>>, TRUE))
           /\ store' = store \cup {row.id}
           /\ IF j + 1 = Len(chunk)
              THEN NextChunk(i)
              ELSE /\ j' = j + 1
                   /\ UNCHANGED <<i, upserted, pc>>
    /\ UNCHANGED <<runArgs, prevVars, fnVars, loaded, pagerVars, loopVars, normalized, staleVars>>

\* database.py 119-128: one row of the rejected chunk is posted alone and
\* rejected: upsert_products returns False at once
UpsertRowRejected ==
    /\ pc = "upsert_row"
    /\ LET chunk == Slice(normalized, i, CHUNK_SIZE)
       IN  sent' = Append(sent, Request("upsert_row", <<chunk[j + 1]>>, FALSE))
    /\ upserted' = <<FALSE>>
    /\ pc' = "upsert_ret"
    /\ UNCHANGED <<runArgs, prevVars, fnVars, loaded, pagerVars, loopVars, normalized, i, j, store,
                   staleVars>>

-----------------------------------------------------------------------------
(* database.remove_stale_products and get_existing_product_ids_for_source *)

\* database.py 164, 134-137: the call, and the start of the paginated read
remove_stale_products_begin ==
    /\ pc = "call_remove"
    /\ reconciled' = reconciled + 1
    /\ atCall' = store
    /\ ids' = {}
    /\ offset' = 0
    /\ existing' = <<>>
    /\ id_list' = <<>>
    /\ deleted' = 0
    /\ removed' = <<>>
    /\ pc' = "read"
    /\ UNCHANGED <<runArgs, prevVars, fnVars, loaded, pagerVars, loopVars, upsertVars, current, i, dbVars>>

\* Faulty variant of Reconcile: the current ids are not subtracted
Reconcile_NoDifference(e) ==
    /\ existing' = <<e>>
    /\ IF e = {}
       THEN /\ removed' = <<0>>
            /\ pc' = "remove_ret"
            /\ UNCHANGED <<id_list, deleted, i>>
       ELSE /\ \E l \in Perms(e) : id_list' = l
            /\ deleted' = 0
            /\ i' = 0
            /\ removed' = removed
            /\ pc' = "delete"

\* Faulty variant of Reconcile: the identities to remove are those that are
\* both stored and current
Reconcile_Intersection(e) ==
    /\ existing' = <<e>>
    /\ IF e \cap current = {}
       THEN /\ removed' = <<0>>
            /\ pc' = "remove_ret"
            /\ UNCHANGED <<id_list, deleted, i>>
       ELSE /\ \E l \in Perms(e \cap current) : id_list' = l
            /\ deleted' = 0
            /\ i' = 0
            /\ removed' = removed
            /\ pc' = "delete"

\* database.py 164-171: get_existing_product_ids_for_source has returned e;
\* nothing to remove returns 0, else the set is listed in some order
Reconcile(e) ==
    /\ existing' = <<e>>
    /\ IF e \ current = {}
       THEN /\ removed' = <<0>>
            /\ pc' = "remove_ret"
            /\ UNCHANGED <<id_list, deleted, i>>
       ELSE /\ \E l \in Perms(e \ current) : id_list' = l
            /\ deleted' = 0
            /\ i' = 0
            /\ removed' = removed
            /\ pc' = "delete"

\* what the table answers to a read at this offset: the next PAGE_LIMIT ids of
\* this source in the order of the table, which is any order
ReadPages == {d \in SUBSET (store \ ids) :
                 Cardinality(d) = Min(PAGE_LIMIT, Cardinality(store \ ids))}

\* database.py 139-155: one page of ids is read; an empty or short page ends
\* the read
ReadOk ==
    /\ pc = "read"
    /\ \E data \in ReadPages :
          /\ sent' = Append(sent, Request("read", offset, TRUE))
          /\ ids' = ids \cup data
          /\ IF data = {} \/ Cardinality(data) < PAGE_LIMIT
             THEN /\ Reconcile(ids \cup data)
                  /\ UNCHANGED offset
             ELSE /\ offset' = offset + Cardinality(data)
                  /\ UNCHANGED <<existing, id_list, deleted, removed, i, pc>>
    /\ UNCHANGED <<runArgs, prevVars, fnVars, loaded, pagerVars, loopVars, normalized, j, upserted,
                   current, reconciled, atCall, store>>

\* Faulty variant of ReadFail: the failed read ends the run with an error
ReadFail_Raises ==
    /\ pc = "read"
    /\ sent' = Append(sent, Request("read", offset, FALSE))
    /\ pc' = "exit1"
    /\ UNCHANGED <<runArgs, prevVars, fnVars, loaded, pagerVars, loopVars, normalized, j, upserted,
                   current, ids, offset, reconciled, atCall, store, existing, id_list,
                   deleted, removed, i>>

\* database.py 144-146: a read fails and the ids read so far are returned
ReadFail ==
    /\ pc = "read"
    /\ sent' = Append(sent, Request("read", offset, FALSE))
    /\ Reconcile(ids)
    /\ UNCHANGED <<runArgs, prevVars, fnVars, loaded, pagerVars, loopVars, normalized, j, upserted,
                   current, ids, offset, reconciled, atCall, store>>

\* the for loop of database.py 171 moves to the next batch, or the function
\* returns deleted after the last one (database.py 183)
NextBatch(d) ==
    /\ i' = i + CHUNK_SIZE
    /\ deleted' = d
    /\ IF i + CHUNK_SIZE >= Len(id_list)
       THEN removed' = <<d>> /\ pc' = "remove_ret"
       ELSE removed' = removed /\ pc' = "delete"

\* database.py 172-180: a batch of ids is deleted
DeleteOk ==
    /\ pc = "delete"
    /\ LET batch == Slice(id_list, i, CHUNK_SIZE)
       IN  /\ sent' = Append(sent, Request("delete", batch, TRUE))
           /\ store' = store \ Range(batch)
           /\ NextBatch(deleted + Len(batch))
    /\ UNCHANGED <<runArgs, prevVars, fnVars, loaded, pagerVars, loopVars, normalized, j, upserted,
                   current, ids, offset, existing, id_list, reconciled, atCall>>

\* Faulty variant of DeleteFail: a rejected batch ends the removal
DeleteFail_Stops ==
    /\ pc = "delete"
    /\ sent' = Append(sent, Request("delete", Slice(id_list, i, CHUNK_SIZE), FALSE))
    /\ removed' = <<deleted>>
    /\ pc' = "remove_ret"
    /\ UNCHANGED <<runArgs, prevVars, fnVars, loaded, pagerVars, loopVars, normalized, j, upserted,
                   current, ids, offset, existing, id_list, reconciled, atCall, store,
                   i, deleted>>

\* database.py 172-182: the delete request of a batch is rejected
DeleteFail ==
    /\ pc = "delete"
    /\ sent' = Append(sent, Request("delete", Slice(id_list, i, CHUNK_SIZE), FALSE))
    /\ NextBatch(deleted)
    /\ UNCHANGED <<runArgs, prevVars, fnVars, loaded, pagerVars, loopVars, normalized, j, upserted,
                   current, ids, offset, existing, id_list, reconciled, atCall, store>>

-----------------------------------------------------------------------------
(* main.run after the for loop *)

\* Faulty variant of DryRunReturn: the report-only flag is not looked at
DryRunReturn_Writes ==
    /\ pc = "after_loop"
    /\ dry_run
    /\ pc' = "call_upsert"
    /\ UNCHANGED <<runArgs, prevVars, fnVars, loaded, pagerVars, loopVars, upsertVars, staleVars, dbVars>>

\* main.py 59-61: report-only mode returns without any storage call
DryRunReturn ==
    /\ pc = "after_loop"
    /\ dry_run
    /\ pc' = "done"
    /\ UNCHANGED <<runArgs, prevVars, fnVars, loaded, pagerVars, loopVars, upsertVars, staleVars, dbVars>>

\* Faulty variant of EmptyRun: a run without rows returns without reconciling
EmptyRun_Returns ==
    /\ pc = "after_loop"
    /\ ~dry_run
    /\ rows = <<>>
    /\ pc' = "done"
    /\ UNCHANGED <<runArgs, prevVars, fnVars, loaded, pagerVars, loopVars, upsertVars, staleVars, dbVars>>

\* main.py 63-65: no row was buffered: remove_stale_products(set())
EmptyRun ==
    /\ pc = "after_loop"
    /\ ~dry_run
    /\ rows = <<>>
    /\ current' = {}
    /\ pc' = "call_remove"
    /\ UNCHANGED <<runArgs, prevVars, fnVars, loaded, pagerVars, loopVars, upsertVars, ids, offset,
                   existing, id_list, deleted, removed, reconciled, atCall, dbVars>>

\* main.py 70-71: upsert_products(rows)
RunUpsert ==
    /\ pc = "after_loop"
    /\ ~dry_run
    /\ rows # <<>>
    /\ pc' = "call_upsert"
    /\ UNCHANGED <<runArgs, prevVars, fnVars, loaded, pagerVars, loopVars, upsertVars, staleVars, dbVars>>

\* Faulty variant of UpsertFailedExit: the result of upsert_products is not
\* looked at and the run goes on to the stale removal
UpsertFailedExit_Ignored ==
    /\ pc = "upsert_ret"
    /\ upserted = <<FALSE>>
    /\ current' = {rows[k].id : k \in 1..Len(rows)}
    /\ pc' = "call_remove"
    /\ UNCHANGED <<runArgs, prevVars, fnVars, loaded, pagerVars, loopVars, upsertVars, ids, offset,
                   existing, id_list, deleted, removed, reconciled, atCall, dbVars>>

\* main.py 71-73: the upsert failed: sys.exit(1)
UpsertFailedExit ==
    /\ pc = "upsert_ret"
    /\ upserted = <<FALSE>>
    /\ pc' = "exit1"
    /\ UNCHANGED <<runArgs, prevVars, fnVars, loaded, pagerVars, loopVars, upsertVars, staleVars, dbVars>>

\* Faulty variant of RunRemoveStale: the stale removal follows the upsert
\* whatever it returned
RunRemoveStale_Always ==
    /\ pc = "upsert_ret"
    /\ upserted # <<>>
    /\ current' = {rows[k].id : k \in 1..Len(rows)}
    /\ pc' = "call_remove"
    /\ UNCHANGED <<runArgs, prevVars, fnVars, loaded, pagerVars, loopVars, upsertVars, ids, offset,
                   existing, id_list, deleted, removed, reconciled, atCall, dbVars>>

\* Faulty variant of RunRemoveStale: the current ids are not passed on
RunRemoveStale_NoCurrent ==
    /\ pc = "upsert_ret"
    /\ upserted = <<TRUE>>
    /\ current' = {}
    /\ pc' = "call_remove"
    /\ UNCHANGED <<runArgs, prevVars, fnVars, loaded, pagerVars, loopVars, upsertVars, ids,
                   offset, existing, id_list, deleted, removed, reconciled, atCall, dbVars>>

\* main.py 74-78: the upsert succeeded: remove_stale_products(current_ids)
RunRemoveStale ==
    /\ pc = "upsert_ret"
    /\ upserted = <<TRUE>>
    /\ current' = Range(RowIds(rows))
    /\ pc' = "call_remove"
    /\ UNCHANGED <<runArgs, prevVars, fnVars, loaded, pagerVars, loopVars, upsertVars, ids, offset,
                   existing, id_list, deleted, removed, reconciled, atCall, dbVars>>

\* main.py 66-68, 79-82: remove_stale_products has returned and run() returns
RunReturn ==
    /\ pc = "remove_ret"
    /\ pc' = "done"
    /\ UNCHANGED <<runArgs, prevVars, fnVars, loaded, pagerVars, loopVars, upsertVars, staleVars, dbVars>>

-----------------------------------------------------------------------------
(* Specification of one run of main.run *)

\* the identities the table can hold before the run: one of a listing the
\* feed can still serve and one of a listing that left the catalog
StoredHandles == {"a", "z"}
StoredIds == {generate_id(SOURCE, _product_url(h)) : h \in StoredHandles}

\* the caps of a run: none, zero, or one listing
Limits == {<<>>, <<0>>, <<1>>}

Blank ==
    /\ loaded = FALSE
    /\ page = 1
    /\ attempt = 0
    /\ slept = <<>>
    /\ products = <<>>
    /\ raw = <<>>
    /\ total = 0
    /\ requested = <<>>
    /\ served = <<>>
    /\ yielded = <<>>
    /\ embedCalls = <<>>
    /\ normalized = <<>>
    /\ i = 0
    /\ j = 0
    /\ upserted = <<>>
    /\ sent = <<>>
    /\ ids = {}
    /\ offset = 0
    /\ existing = <<>>
    /\ id_list = <<>>
    /\ deleted = 0
    /\ removed = <<>>
    /\ reconciled = 0
    /\ atCall = {}

\* neither _ensure_dim nor _sale_value is being exercised, and no run of
\* main.run came before
Idle ==
    /\ vec = <<>>
    /\ fitted = <<>>
    /\ variants = <<>>
    /\ sale = None
    /\ runs = 0
    /\ prev = <<>>

Init ==
    /\ dry_run \in BOOLEAN
    /\ limit \in Limits
    /\ SUPABASE_KEY \in {"", "key"}
    /\ store \in SUBSET StoredIds
    /\ pc = "start"
    /\ rows = <<>>
    /\ current = {}
    /\ Blank
    /\ Idle

Next ==
    \/ Start
    \/ Yield
    \/ CallFetch
    \/ FetchOk
    \/ FetchFail
    \/ FetchReturn
    \/ LimitBreak
    \/ SkipNoImage
    \/ ProcessListing
    \/ DryRunReturn
    \/ EmptyRun
    \/ RunUpsert
    \/ upsert_products_begin
    \/ UpsertChunkOk
    \/ UpsertChunkRejected
    \/ UpsertRowOk
    \/ UpsertRowRejected
    \/ UpsertFailedExit
    \/ RunRemoveStale
    \/ remove_stale_products_begin
    \/ ReadOk
    \/ ReadFail
    \/ DeleteOk
    \/ DeleteFail
    \/ RunReturn

Spec == Init /\ [][Next]_vars

-----------------------------------------------------------------------------
(* Specification of the two storage functions called on their own, with any  *)
(* rows, any current ids and any content of the table                        *)

DbHandles == Handles \cup {"y", "z"}
DbIds == {generate_id(SOURCE, _product_url(h)) : h \in DbHandles}

\* the rows prepare_row can build for the listings of the feed
DbRows ==
    {prepare_row(product_to_record(l), ie, te) :
        l \in {x \in Listings : _image_urls(x)[1] # ""},
        ie \in ImageEmbeddings, te \in InfoEmbeddings}

InitDb ==
    /\ dry_run = FALSE
    /\ limit = <<>>
    /\ SUPABASE_KEY = "key"
    /\ Blank
    /\ Idle
    /\ \/ /\ pc = "call_upsert"
          /\ rows \in SeqsUpTo(DbRows, MaxRows)
          /\ current = {}
          /\ store \in SUBSET StoredIds
       \/ /\ pc = "call_remove"
          /\ rows = <<>>
          /\ current \in SUBSET DbIds
          /\ store \in SUBSET DbIds

NextDb ==
    \/ upsert_products_begin
    \/ UpsertChunkOk
    \/ UpsertChunkRejected
    \/ UpsertRowOk
    \/ UpsertRowRejected
    \/ remove_stale_products_begin
    \/ ReadOk
    \/ ReadFail
    \/ DeleteOk
    \/ DeleteFail

SpecDb == InitDb /\ [][NextDb]_vars

-----------------------------------------------------------------------------
(* embeddings.EmbeddingGenerator._ensure_dim, exercised on its own             *)
(*                                                                             *)
(* A vector is held exactly, as [num, den2]: the coordinates num[k] divided by *)
(* the square root of den2.  Its norm squared is SumSq(num) / den2, so its     *)
(* norm is 0 when SumSq(num) = 0 and 1 when SumSq(num) = den2, and dividing it *)
(* by its norm gives [num, SumSq(num)].                                        *)

RECURSIVE SumSq(_)
\* the sum of the squares of a sequence of integers
SumSq(s) == IF s = <<>> THEN 0 ELSE Head(s) * Head(s) + SumSq(Tail(s))

\* vec / np.linalg.norm(vec), for a vector whose norm is not 0
DivideByNorm(v) == [num |-> v.num, den2 |-> SumSq(v.num)]

\* np.zeros(n)
Zeros(n) == [k \in 1..n |-> 0]

\* embeddings.py 44-65: <<>> is None, <<v>> the list returned
_ensure_dim(x) ==
    LET flat == [num |-> x, den2 |-> 1]
    IN  IF SumSq(flat.num) <= 0 THEN <<>>
        ELSE LET unit == DivideByNorm(flat)
             IN  IF Len(unit.num) = EMBEDDING_DIM THEN <<unit>>
                 ELSE IF Len(unit.num) > EMBEDDING_DIM
                 THEN LET cut == [num |-> SubSeq(unit.num, 1, EMBEDDING_DIM),
                                  den2 |-> unit.den2]
                      IN  <<IF SumSq(cut.num) > 0 THEN DivideByNorm(cut) ELSE cut>>
                 ELSE LET padded == [num |-> unit.num \o Zeros(EMBEDDING_DIM - Len(unit.num)),
                                     den2 |-> unit.den2]
                      IN  <<IF SumSq(padded.num) > 0 THEN DivideByNorm(padded) ELSE padded>>

\* one call of _ensure_dim(vec)
EnsureDim ==
    /\ pc = "dim_call"
    /\ fitted' = _ensure_dim(vec)
    /\ pc' = "dim_ret"
    /\ UNCHANGED <<runArgs, prevVars, loaded, pagerVars, loopVars, upsertVars, staleVars, dbVars,
                   vec, variants, sale>>

\* the coordinates of the vectors the model output can have
Coords == -2..2

InitDim ==
    /\ dry_run = FALSE
    /\ limit = <<>>
    /\ SUPABASE_KEY = "key"
    /\ store = {}
    /\ rows = <<>>
    /\ current = {}
    /\ Blank
    /\ pc = "dim_call"
    /\ vec \in SeqsUpTo(Coords, MaxVecLen)
    /\ fitted = <<>>
    /\ variants = <<>>
    /\ sale = None
    /\ runs = 0
    /\ prev = <<>>

NextDim == EnsureDim

SpecDim == InitDim /\ [][NextDim]_vars

-----------------------------------------------------------------------------
(* scraper._sale_value, exercised on its own *)

\* what the feed can hold under "price" and "compare_at_price" of a variant:
\* nothing, the empty text, a text that is no number, and amounts
PriceValues == {None, "", "abc", "9.5", "10.00", "20"}

\* the truth value Python gives a price value
Truthy(v) == v # None /\ v # ""

\* float(v) does not raise
IsNumber(v) == v \in {"9.5", "10.00", "20"}

\* float(v), in hundredths
float(v) ==
    CASE v = "9.5" -> 950
      [] v = "10.00" -> 1000
      [] v = "20" -> 2000

\* f"{x:.2f}" for x in hundredths
Fixed2(x) ==
    CASE x = 950 -> "9.50"
      [] x = 1000 -> "10.00"
      [] x = 2000 -> "20.00"

\* scraper.py 74-89: None, or the sale price with the currency
_sale_value(product) ==
    IF product.variants = <<>> THEN None
    ELSE LET v == product.variants[1]
             price == v.price
             compare == v.compare_at_price
         IN  IF ~Truthy(price) THEN None
             ELSE IF ~Truthy(compare) THEN None
             ELSE IF ~IsNumber(price) \/ ~IsNumber(compare) THEN price \o "EUR"
             ELSE IF float(price) < float(compare) THEN Fixed2(float(price)) \o "EUR"
             ELSE None

\* scraper.py 166, 187: product_to_record sets the sale of the record
RecordSale ==
    /\ pc = "sale_call"
    /\ sale' = _sale_value([variants |-> variants])
    /\ pc' = "sale_ret"
    /\ UNCHANGED <<runArgs, prevVars, loaded, pagerVars, loopVars, upsertVars, staleVars, dbVars,
                   vec, fitted, variants>>

Variants == [price : PriceValues, compare_at_price : PriceValues]

InitSale ==
    /\ dry_run = FALSE
    /\ limit = <<>>
    /\ SUPABASE_KEY = "key"
    /\ store = {}
    /\ rows = <<>>
    /\ current = {}
    /\ Blank
    /\ pc = "sale_call"
    /\ vec = <<>>
    /\ fitted = <<>>
    /\ variants \in SeqsUpTo(Variants, MaxVariants)
    /\ sale = None
    /\ runs = 0
    /\ prev = <<>>

NextSale == RecordSale

SpecSale == InitSale /\ [][NextSale]_vars

-----------------------------------------------------------------------------
(* Specification of two runs of main.run in a row: a run that writes, with    *)
(* every storage request accepted, and then a run with the same arguments     *)
(* over the same source content.  Nobody else changes the table.              *)

\* run_scraper.py 16: the process is started again after a run that returned
\* with every storage request accepted; the table stays as that run left it
Rerun ==
    /\ pc = "done"
    /\ runs = 0
    /\ \A k \in 1..Len(sent) : sent[k].ok
    /\ runs' = 1
    /\ prev' = <<[served |-> served, yielded |-> yielded, store |-> store]>>
    /\ pc' = "start"
    /\ loaded' = FALSE
    /\ page' = 1
    /\ attempt' = 0
    /\ slept' = <<>>
    /\ products' = <<>>
    /\ raw' = <<>>
    /\ total' = 0
    /\ rows' = <<>>
    /\ requested' = <<>>
    /\ served' = <<>>
    /\ yielded' = <<>>
    /\ embedCalls' = <<>>
    /\ normalized' = <<>>
    /\ i' = 0
    /\ j' = 0
    /\ upserted' = <<>>
    /\ sent' = <<>>
    /\ current' = {}
    /\ ids' = {}
    /\ offset' = 0
    /\ existing' = <<>>
    /\ id_list' = <<>>
    /\ deleted' = 0
    /\ removed' = <<>>
    /\ reconciled' = 0
    /\ atCall' = {}
    /\ UNCHANGED <<runArgs, fnVars, store>>

InitTwice ==
    /\ dry_run = FALSE
    /\ limit \in Limits
    /\ SUPABASE_KEY = "key"
    /\ store \in SUBSET StoredIds
    /\ pc = "start"
    /\ rows = <<>>
    /\ current = {}
    /\ Blank
    /\ Idle

NextTwice ==
    \/ Start
    \/ Yield
    \/ CallFetch
    \/ FetchOk
    \/ FetchFail
    \/ FetchReturn
    \/ LimitBreak
    \/ SkipNoImage
    \/ ProcessListing
    \/ EmptyRun
    \/ RunUpsert
    \/ upsert_products_begin
    \/ UpsertChunkOk
    \/ UpsertChunkRejected
    \/ UpsertRowOk
    \/ UpsertRowRejected
    \/ UpsertFailedExit
    \/ RunRemoveStale
    \/ remove_stale_products_begin
    \/ ReadOk
    \/ ReadFail
    \/ DeleteOk
    \/ DeleteFail
    \/ RunReturn
    \/ Rerun

SpecTwice == InitTwice /\ [][NextTwice]_vars

-----------------------------------------------------------------------------
(* Properties *)

\* the requests of one kind, in the order they were sent
Requests(op) == SelectSeq(sent, LAMBDA r : r.op = op)

\* the storage requests that are upserts
IsUpsert(r) == r.op \in {"upsert_chunk", "upsert_row"}

\* every storage request of the run so far succeeded
AllOk == \A k \in 1..Len(sent) : sent[k].ok

\* every read and every delete so far succeeded
ReadsAndDeletesOk ==
    \A k \in 1..Len(sent) : sent[k].op \in {"read", "delete"} => sent[k].ok

\* the ids named in a sequence of delete requests
DeletedIds(dels) == UNION {Range(dels[k].body) : k \in 1..Len(dels)}

RECURSIVE SumLen(_)
\* the total number of entries in the bodies of a sequence of requests
SumLen(reqs) == IF reqs = <<>> THEN 0 ELSE Len(Head(reqs).body) + SumLen(Tail(reqs))

\* C1: once upsert_products has returned False the run is at, or on its way
\* to, the non-zero exit: remove_stale_products is never called and the only
\* storage requests of the run are the upserts (no read, no delete).
C1_FailedUpsertSkipsReconcile ==
    upserted = <<FALSE>> =>
        /\ pc \in {"upsert_ret", "exit1"}
        /\ reconciled = 0
        /\ \A k \in 1..Len(sent) : IsUpsert(sent[k])

C1_Witness ==
    /\ pc = "exit1"
    /\ upserted = <<FALSE>>
    /\ store # {}

\* C2 as stated: whenever remove_stale_products has been invoked, a call of
\* upsert_products has returned True before, also in the run without rows.
C2_Original == reconciled > 0 => upserted = <<TRUE>>

\* C2 amended: whenever remove_stale_products has been invoked, either a call
\* of upsert_products has returned True before, or no row was buffered and
\* upsert_products was not called at all (no upsert request was sent).
C2_ReconcileOnlyAfterUpsertOrEmpty ==
    reconciled > 0 =>
        \/ upserted = <<TRUE>>
        \/ /\ rows = <<>>
           /\ upserted = <<>>
           /\ \A k \in 1..Len(sent) : ~IsUpsert(sent[k])

C2_Witness ==
    /\ pc = "done"
    /\ reconciled = 1
    /\ upserted = <<TRUE>>
    /\ Requests("delete") # <<>>

\* C3: when remove_stale_products(current) has returned and every read and
\* delete succeeded, existing is what the table held at the call, the delete
\* requests name exactly existing - current, each identity once, in batches
\* of 1..CHUNK_SIZE identities, the returned count is |existing - current|
\* (no delete request when that is empty), and the table keeps the rest.
C3_DeletesExactlyStale ==
    (pc \in {"remove_ret", "done"} /\ reconciled = 1 /\ ReadsAndDeletesOk) =>
        LET dels == Requests("delete")
            stale == atCall \ current
        IN  /\ existing = <<atCall>>
            /\ DeletedIds(dels) = stale
            /\ DeletedIds(dels) \cap current = {}
            /\ \A k \in 1..Len(dels) : Len(dels[k].body) \in 1..CHUNK_SIZE
            /\ SumLen(dels) = Cardinality(stale)
            /\ removed = <<Cardinality(stale)>>
            /\ (stale = {} => dels = <<>>)
            /\ store = atCall \ stale

C3_Witness ==
    /\ pc = "remove_ret"
    /\ ReadsAndDeletesOk
    /\ Len(Requests("delete")) = 2
    /\ atCall \cap current # {}
    /\ removed = <<3>>

\* C4: a run that is not report-only and ends its loop without a row has
\* called remove_stale_products once, with no current id and without any
\* upsert; when every storage request succeeded, every identity the table
\* held was named in a delete request and the table is empty.
C4_EmptyRunDeletesAll ==
    (pc = "done" /\ ~dry_run /\ rows = <<>>) =>
        /\ reconciled = 1
        /\ current = {}
        /\ upserted = <<>>
        /\ AllOk => /\ DeletedIds(Requests("delete")) = atCall
                    /\ existing = <<atCall>>
                    /\ store = {}

C4_Witness ==
    /\ pc = "done"
    /\ ~dry_run
    /\ rows = <<>>
    /\ yielded # <<>>
    /\ AllOk
    /\ Cardinality(atCall) = 2
    /\ store = {}

\* C5: in report-only mode no storage request is sent, neither storage
\* function is entered, the run never takes the non-zero exit, and no step
\* changes the table.
C5_DryRunWritesNothing ==
    /\ [](dry_run => /\ sent = <<>>
                     /\ reconciled = 0
                     /\ upserted = <<>>
                     /\ pc \notin {"exit1", "call_upsert", "call_remove"})
    /\ [][dry_run => store' = store]_vars

C5_Witness ==
    /\ pc = "done"
    /\ dry_run
    /\ limit # <<>>
    /\ Len(rows) = 1
    /\ Len(yielded) = 2
    /\ store # {}

\* the requests that follow request k of the history up to the next request
\* that is not the retry of a single row: the per-row retry of chunk k
RetriesOf(k) ==
    LET last == CHOOSE m \in k..Len(sent) :
                    /\ \A n \in (k + 1)..m : sent[n].op = "upsert_row"
                    /\ (m < Len(sent) => sent[m + 1].op # "upsert_row")
    IN  SubSeq(sent, k + 1, last)

\* C6 as stated: when upsert_products has returned, for every chunk (of rows
\* of different products) that was rejected as a whole and had exactly one row
\* rejected in its per-row retry, every row of the chunk was sent individually,
\* and every row but the rejected one was accepted and is stored.
C6_Original ==
    pc = "upsert_ret" =>
        \A k \in 1..Len(sent) :
            (/\ sent[k].op = "upsert_chunk"
             /\ ~sent[k].ok
             /\ Cardinality(Range(RowIds(sent[k].body))) = Len(sent[k].body)
             /\ Cardinality({n \in 1..Len(RetriesOf(k)) : ~RetriesOf(k)[n].ok}) = 1) =>
                LET chunk == sent[k].body
                    retries == RetriesOf(k)
                IN  /\ Len(retries) = Len(chunk)
                    /\ \A n \in 1..Len(chunk) :
                          /\ retries[n].body = <<chunk[n]>>
                          /\ retries[n].ok => chunk[n].id \in store

\* the number of chunks a sequence of n rows is cut into
ChunkCount(n) == (n + CHUNK_SIZE - 1) \div CHUNK_SIZE

\* C7: the k-th chunk request carries the k-th run of CHUNK_SIZE consecutive
\* rows of the input (the last run may be shorter), so no row is in two chunks
\* and no chunk is sent twice; once upsert_products has returned: without a
\* rejected chunk every chunk was sent once, nothing else was sent and the
\* result is True; without a rejected row every chunk was sent, every row is
\* stored and the result is True; no rows give True without any request.
C7_ChunksPartitionRows ==
    LET chunks == Requests("upsert_chunk")
        n == Len(rows)
    IN  /\ \A k \in 1..Len(chunks) :
              /\ k <= ChunkCount(n)
              /\ Len(chunks[k].body) \in 1..CHUNK_SIZE
              /\ RowIds(chunks[k].body) =
                    SubSeq(RowIds(rows), (k - 1) * CHUNK_SIZE + 1, Min(k * CHUNK_SIZE, n))
        /\ pc = "upsert_ret" =>
              /\ (\A k \in 1..Len(chunks) : chunks[k].ok) =>
                    /\ upserted = <<TRUE>>
                    /\ sent = chunks
                    /\ Len(chunks) = ChunkCount(n)
              /\ (\A k \in 1..Len(sent) : sent[k].op = "upsert_row" => sent[k].ok) =>
                    /\ upserted = <<TRUE>>
                    /\ Len(chunks) = ChunkCount(n)
                    /\ Range(RowIds(rows)) \subseteq store
              /\ rows = <<>> => upserted = <<TRUE>> /\ sent = <<>>

C7_Witness ==
    /\ pc = "upsert_ret"
    /\ upserted = <<TRUE>>
    /\ Len(rows) = 3
    /\ ~sent[1].ok
    /\ Len(Requests("upsert_chunk")) = 2
    /\ Len(Requests("upsert_row")) = 2

RECURSIVE PagesInOrder(_, _)
\* the (page, listing) pairs of pages k, k + 1, ... of what was served, in order
PagesInOrder(pages, k) ==
    IF k > Len(pages) THEN <<>>
    ELSE [m \in 1..Len(pages[k]) |-> [page |-> k, listing |-> pages[k][m]]]
         \o PagesInOrder(pages, k + 1)

\* C8: the k-th call of fetch_collection_page asks for page k; a page is only
\* asked for after every earlier page returned listings; and what the
\* generator has yielded is a prefix of the listings of the pages, page by
\* page and in the order inside each page.
C8_PagesAscending ==
    LET inOrder == PagesInOrder(served, 1)
    IN  /\ \A k \in 1..Len(requested) : requested[k] = k
        /\ Len(requested) \in {Len(served), Len(served) + 1}
        /\ \A k \in 1..Len(served) : served[k] = <<>> => k = Len(requested)
        /\ Len(yielded) <= Len(inOrder)
        /\ yielded = SubSeq(inOrder, 1, Len(yielded))

C8_Witness ==
    /\ pc = "after_loop"
    /\ requested = <<1, 2, 3>>
    /\ Len(yielded) = 2
    /\ served[3] = <<>>

\* C9: a call of fetch_collection_page makes a further attempt only while
\* fewer than MAX_RETRIES attempts have failed; an attempt that does not fail
\* returns at once; the MAX_RETRIES-th failure returns no products (the run
\* goes on); and a return without products ends the paging, with no further
\* page request, whether the page was empty or every attempt failed.
C9_BoundedRetries ==
    /\ [](/\ attempt \in 0..MAX_RETRIES
          /\ pc = "fetch" => attempt < MAX_RETRIES
          /\ (pc = "fetch_ret" /\ attempt = MAX_RETRIES) => products = <<>>)
    /\ [][pc = "fetch" =>
            \/ /\ attempt' = attempt + 1
               /\ products' = products
               /\ pc' = IF attempt' = MAX_RETRIES THEN "fetch_ret" ELSE "fetch"
            \/ /\ attempt' = 0
               /\ pc' = "fetch_ret"]_vars
    /\ [][(pc = "fetch_ret" /\ products = <<>>) =>
            /\ pc' = "after_loop"
            /\ requested' = requested
            /\ yielded' = yielded]_vars
    /\ [][pc \notin {"start", "next", "fetch", "fetch_ret", "body"} =>
            requested' = requested]_vars

C9_Witness ==
    /\ pc = "fetch_ret"
    /\ attempt = MAX_RETRIES
    /\ page = 2
    /\ Len(yielded) = 1
    /\ products = <<>>

\* a listing has a primary image when one of its images has a src
HasImage(listing) == \E k \in 1..Len(listing.images) : listing.images[k] # ""

\* the src of the first image of the listing that has one
FirstImage(listing) ==
    listing.images[CHOOSE k \in 1..Len(listing.images) :
                      /\ listing.images[k] # ""
                      /\ \A m \in 1..(k - 1) : listing.images[m] = ""]

\* the listings run() has taken within the cap, and those of them with an image
Processed == [k \in 1..total |-> yielded[k].listing]
Kept == SelectSeq(Processed, HasImage)

\* C10: the buffered rows are, in order, one row for each listing taken within
\* the cap that has a primary image (its product url, its first image, the id
\* of its url); the embedding was asked for exactly those listings; and the
\* current ids given to remove_stale_products are the ids of those rows.
C10_RowsAreListingsWithImage ==
    /\ total <= Len(yielded)
    /\ LET kept == Kept
       IN  /\ Len(rows) = Len(kept)
           /\ \A k \in 1..Len(rows) :
                 /\ rows[k].product_url = BASE_URL \o "/en/products/" \o kept[k].handle
                 /\ rows[k].image_url = FirstImage(kept[k])
                 /\ rows[k].id = generate_id(SOURCE, rows[k].product_url)
           /\ embedCalls = [k \in 1..Len(kept) |-> FirstImage(kept[k])]
           /\ reconciled > 0 =>
                 current = {generate_id(SOURCE, BASE_URL \o "/en/products/" \o kept[k].handle) :
                               k \in 1..Len(kept)}

C10_Witness ==
    /\ pc = "done"
    /\ total = 2
    /\ ~HasImage(yielded[1].listing)
    /\ Len(rows) = 1
    /\ reconciled = 1
    /\ Cardinality(current) = 1

\* the two optional vectors of a row
EmbeddingKeys == {"image_embedding", "info_embedding"}

\* C11 as stated: one row is buffered for every listing taken that has a
\* primary image, whatever the two embedding calls returned; once
\* upsert_products has returned with every request accepted each buffered row
\* was sent; and every row sent to storage has both vector keys, holding the
\* vector or an explicit null.
C11_Original ==
    /\ LET kept == Kept IN Len(rows) = Len(kept)
    /\ (pc = "upsert_ret" /\ AllOk) =>
          \A n \in 1..Len(rows) :
              \E k \in 1..Len(sent) :
                  /\ IsUpsert(sent[k])
                  /\ rows[n].id \in Range(RowIds(sent[k].body))
    /\ \A k \in 1..Len(sent) :
          IsUpsert(sent[k]) =>
              \A n \in 1..Len(sent[k].body) : EmbeddingKeys \subseteq DOMAIN sent[k].body[n]

\* nothing has been done yet: no model load, no page request, no embedding
\* call, no storage request, no storage function entered
NoWorkDone ==
    /\ ~loaded
    /\ requested = <<>>
    /\ yielded = <<>>
    /\ embedCalls = <<>>
    /\ sent = <<>>
    /\ upserted = <<>>
    /\ reconciled = 0

\* C12 as stated: whenever the storage key is unset, in every mode, the run is
\* at its start or at the non-zero exit and no work has been done.
C12_Original ==
    SUPABASE_KEY = "" => (pc \in {"start", "exit1"} /\ NoWorkDone)

\* C12 amended: whenever the storage key is unset and the run is not
\* report-only, the run is at its start or at the non-zero exit and no work
\* has been done; a report-only run without the key is not stopped: it never
\* takes the non-zero exit and never sends a storage request.
C12_MissingKeyFatalUnlessDryRun ==
    /\ (SUPABASE_KEY = "" /\ ~dry_run) => (pc \in {"start", "exit1"} /\ NoWorkDone)
    /\ (SUPABASE_KEY = "" /\ dry_run) => (pc # "exit1" /\ sent = <<>>)

C12_Witness ==
    /\ SUPABASE_KEY = ""
    /\ ~dry_run
    /\ pc = "exit1"
    /\ store # {}
    /\ limit = <<>>

\* C13: with a cap N at most N listings are taken (total), those skipped for
\* lacking an image included, so at most N rows are buffered and at most N
\* embeddings asked for; every listing taken was completed: it gave a row and
\* an embedding call, or it was skipped; run() holds a listing only while it
\* is in the body of the loop; and the only listing that is yielded and not
\* taken is the one at which the cap was found reached.
C13_CapBoundsProcessing ==
    /\ limit # <<>> =>
          /\ total <= limit[1]
          /\ Len(rows) <= limit[1]
          /\ Len(embedCalls) <= limit[1]
    /\ total <= Len(yielded)
    /\ Len(rows) + Cardinality({k \in 1..total : ~HasImage(yielded[k].listing)}) = total
    /\ Len(embedCalls) = Len(rows)
    /\ (raw # <<>>) = (pc = "body")
    /\ Len(yielded) - total \in {0, 1}
    /\ (Len(yielded) = total + 1 /\ pc # "body") => (limit # <<>> /\ total = limit[1])

C13_Witness ==
    /\ limit = <<1>>
    /\ pc = "done"
    /\ total = 1
    /\ rows = <<>>
    /\ Len(yielded) = 2
    /\ HasImage(yielded[2].listing)

\* the keys of all the rows given to upsert_products
AllKeys == UNION {DOMAIN rows[m] : m \in 1..Len(rows)}

\* row r is input row m on the keys of all rows, null where row m has no such key
IsFilled(r, m, keys) ==
    /\ DOMAIN r = keys
    /\ \A key \in keys : r[key] = IF key \in DOMAIN rows[m] THEN rows[m][key] ELSE None

\* C14: every row of every chunk request and of every single-row retry of a
\* call of upsert_products has exactly the keys of the union of the keys of
\* all rows given to the call, and is one of those rows with null under each
\* key it did not have.
C14_UniformFieldSet ==
    LET keys == AllKeys
    IN  \A k \in 1..Len(sent) :
            IsUpsert(sent[k]) =>
                \A n \in 1..Len(sent[k].body) :
                    \E m \in 1..Len(rows) : IsFilled(sent[k].body[n], m, keys)

C14_Witness ==
    /\ pc = "upsert_ret"
    /\ upserted = <<TRUE>>
    /\ Len(rows) = 3
    /\ "image_embedding" \in DOMAIN rows[1]
    /\ "image_embedding" \notin DOMAIN rows[3]
    /\ "info_embedding" \in DOMAIN rows[3]
    /\ "info_embedding" \notin DOMAIN rows[1]
    /\ ~sent[1].ok
    /\ Len(Requests("upsert_chunk")) = 2

\* C15 as stated: for a vector of any length, _ensure_dim returns None exactly
\* when the vector has norm 0, and otherwise a list of exactly EMBEDDING_DIM
\* coordinates with norm 1.
C15_Original ==
    pc = "dim_ret" =>
        /\ (fitted = <<>>) = (SumSq(vec) = 0)
        /\ fitted # <<>> =>
              /\ Len(fitted[1].num) = EMBEDDING_DIM
              /\ SumSq(fitted[1].num) = fitted[1].den2

\* C16 as stated: the sale of the record is not null only when the product
\* has a variant and the price of the first variant is a number strictly below
\* its compare-at price; without variants, without a price, without a
\* compare-at price, with values that are no numbers and with a price that is
\* not lower, the sale is null.
C16_Original ==
    pc = "sale_ret" =>
        (sale # None =>
            /\ variants # <<>>
            /\ IsNumber(variants[1].price)
            /\ IsNumber(variants[1].compare_at_price)
            /\ float(variants[1].price) < float(variants[1].compare_at_price))

\* C17: two buffered rows have the same id exactly when they have the same
\* product_url, whatever their other fields and embeddings are, and in every
\* run the id of a row is the digest of the source tag and its product_url.
C17_IdentityFromUrl ==
    /\ \A a, b \in 1..Len(rows) :
          (rows[a].id = rows[b].id) = (rows[a].product_url = rows[b].product_url)
    /\ \A a \in 1..Len(rows) :
          /\ rows[a].source = "scraper"
          /\ rows[a].id = "sha256(scraper:" \o rows[a].product_url \o ")"

C17_Witness ==
    /\ Len(rows) = 2
    /\ rows[1].product_url = rows[2].product_url
    /\ rows[1].id = rows[2].id
    /\ DOMAIN rows[1] # DOMAIN rows[2]

\* C18: in a call of fetch_collection_page with k failed attempts so far, the
\* waits made are REQUEST_DELAY, 2 * REQUEST_DELAY, ..., one after each failed
\* attempt but the last possible one: none before the first attempt, k of them
\* after k < MAX_RETRIES failures, and MAX_RETRIES - 1 after the last failure.
C18_LinearBackoff ==
    /\ Len(slept) = Min(attempt, MAX_RETRIES - 1)
    /\ \A k \in 1..Len(slept) : slept[k] = k * REQUEST_DELAY
    /\ pc \notin {"fetch", "fetch_ret"} => slept = <<>>

C18_Witness ==
    /\ pc = "fetch_ret"
    /\ attempt = 3
    /\ slept = <<REQUEST_DELAY, 2 * REQUEST_DELAY>>
    /\ page = 1

\* C19: the k-th read asks for the page at offset (k - 1) * PAGE_LIMIT and no
\* read follows a failed one; no delete is sent before the read has ended;
\* when every read succeeded the read ended at the first page that was empty
\* or short (|table| div PAGE_LIMIT full pages before it) and returned the
\* whole table; a failed read ends the read without an error and returns the
\* full pages read before it; and remove_stale_products goes on with what was
\* returned: its delete requests name only, and once it has returned all of,
\* the returned identities that are not current.
C19_PaginatedReadAndPartialSet ==
    LET reads == Requests("read")
        dels == Requests("delete")
    IN  /\ \A k \in 1..Len(reads) :
              /\ reads[k].body = (k - 1) * PAGE_LIMIT
              /\ ~reads[k].ok => k = Len(reads)
        /\ existing = <<>> => (dels = <<>> /\ (reconciled > 0 => pc = "read"))
        /\ (reads # <<>> /\ ~reads[Len(reads)].ok) =>
              /\ existing # <<>>
              /\ pc \in {"delete", "remove_ret"}
        /\ existing # <<>> =>
              /\ existing[1] \subseteq atCall
              /\ reads # <<>>
              /\ IF reads[Len(reads)].ok
                 THEN /\ existing[1] = atCall
                      /\ Len(reads) = (Cardinality(atCall) \div PAGE_LIMIT) + 1
                 ELSE Cardinality(existing[1]) = (Len(reads) - 1) * PAGE_LIMIT
              /\ DeletedIds(dels) \subseteq existing[1] \ current
              /\ pc = "remove_ret" => DeletedIds(dels) = existing[1] \ current

C19_Witness ==
    /\ pc = "remove_ret"
    /\ Len(Requests("read")) = 2
    /\ ~Requests("read")[2].ok
    /\ Cardinality(existing[1]) = PAGE_LIMIT
    /\ removed = <<1>>
    /\ (atCall \ existing[1]) \ current # {}
    /\ (atCall \ existing[1]) \ current \subseteq store

\* the delete requests that were accepted
AcceptedDeletes == SelectSeq(Requests("delete"), LAMBDA r : r.ok)

\* C20: the k-th delete request carries the k-th batch of id_list whether the
\* earlier ones were accepted or not, and the count so far is the sum of the
\* sizes of the accepted batches; the function never ends in an error; once it
\* has returned, every batch of id_list was attempted, the returned count is
\* the sum of the sizes of the accepted batches, the identities of the
\* accepted batches are gone from the table and those of the rejected batches
\* are still stored.
C20_RejectedBatchDoesNotStop ==
    LET dels == Requests("delete")
        accepted == AcceptedDeletes
    IN  /\ \A k \in 1..Len(dels) :
              dels[k].body = Slice(id_list, (k - 1) * CHUNK_SIZE, CHUNK_SIZE)
        /\ pc # "exit1"
        /\ pc = "delete" => deleted = SumLen(accepted)
        /\ pc = "remove_ret" =>
              /\ Len(dels) = ChunkCount(Len(id_list))
              /\ removed = <<SumLen(accepted)>>
              /\ store = atCall \ DeletedIds(accepted)
              /\ \A k \in 1..Len(dels) : ~dels[k].ok => Range(dels[k].body) \subseteq store

C20_Witness ==
    /\ pc = "remove_ret"
    /\ Len(Requests("delete")) = 2
    /\ ~Requests("delete")[1].ok
    /\ Requests("delete")[2].ok
    /\ Len(id_list) = 3
    /\ removed = <<1>>
    /\ Cardinality(store) = Cardinality(atCall) - 1

\* the positions of run() inside, or before, its for loop
InLoop == pc \in {"start", "next", "fetch", "fetch_ret", "body"}

\* C21: the buffered rows are the rows of the listings with an image among
\* those taken, in the order the feed served them (page by page, and in the
\* order inside the page); the listing run() holds is the last one yielded
\* and every listing yielded before it has been buffered or skipped; and as
\* long as run() is in its loop no storage request has been sent and neither
\* storage function has been entered.
C21_OneAtATimeInSourceOrder ==
    LET inOrder == PagesInOrder(served, 1)
        taken == [k \in 1..total |-> inOrder[k].listing]
        kept == SelectSeq(taken, HasImage)
    IN  /\ total <= Len(inOrder)
        /\ [k \in 1..Len(rows) |-> rows[k].product_url] =
              [k \in 1..Len(kept) |-> _product_url(kept[k].handle)]
        /\ pc = "body" =>
              /\ total = Len(yielded) - 1
              /\ raw = <<yielded[Len(yielded)].listing>>
              /\ Len(embedCalls) = Len(rows)
        /\ InLoop =>
              /\ sent = <<>>
              /\ upserted = <<>>
              /\ reconciled = 0
        /\ sent # <<>> => products = <<>> \/ (limit # <<>> /\ total = limit[1])

C21_Witness ==
    /\ pc = "done"
    /\ Len(served) = 3
    /\ Len(rows) = 2
    /\ rows[1].product_url = _product_url("b")
    /\ rows[2].product_url = _product_url("a")
    /\ Len(sent) >= 2

\* C22: whatever the table held and whichever reads and deletes fail, no
\* delete request, accepted or not, names an identity of the current ids given
\* to remove_stale_products, and the list of identities to remove holds none;
\* after an upsert that returned True the current ids are the ids of the
\* buffered rows, and all of them are stored from then on to the end of the run.
C22_NeverDeletesCurrent ==
    LET dels == Requests("delete")
    IN  /\ DeletedIds(dels) \cap current = {}
        /\ Range(id_list) \cap current = {}
        /\ (reconciled > 0 /\ upserted = <<TRUE>>) =>
              /\ current = Range(RowIds(rows))
              /\ current \subseteq atCall
              /\ current \subseteq store

C22_Witness ==
    /\ pc = "done"
    /\ upserted = <<TRUE>>
    /\ Cardinality(current) = 2
    /\ Len(Requests("delete")) = 1
    /\ Requests("delete")[1].ok
    /\ Cardinality(atCall) = 3
    /\ store = current

\* the run has been served, page by page, what the run before was served
SameContent ==
    /\ Len(served) <= Len(prev[1].served)
    /\ \A k \in 1..Len(served) : served[k] = prev[1].served[k]

\* C23: after a run that is not report-only and had every storage request
\* accepted, the identities stored are exactly the ids of the buffered rows,
\* whatever the table held before; and a second run that is served the same
\* source content sends no delete request and never changes the set of stored
\* identities, and ends with the same ids buffered.
C23_Convergence ==
    /\ (pc = "done" /\ AllOk) =>
          /\ store = Range(RowIds(rows))
          /\ current = Range(RowIds(rows))
    /\ (runs = 1 /\ SameContent) =>
          /\ Requests("delete") = <<>>
          /\ store = prev[1].store
          /\ pc = "done" =>
                /\ yielded = prev[1].yielded
                /\ Range(RowIds(rows)) = prev[1].store
                /\ removed \in {<<>>, <<0>>}

C23_Witness ==
    /\ runs = 1
    /\ pc = "done"
    /\ AllOk
    /\ served = prev[1].served
    /\ Len(rows) = 2
    /\ Cardinality(store) = 2
    /\ store = prev[1].store
    /\ removed = <<0>>

====
